---- MODULE Spec2Model ----
(***************************************************************************)
(* Model of maya_utils: frame_camera_to_objects (camera_utils.py) and the  *)
(* extent helpers get_min_max / node_get_bounding_box (xform_utils.py).    *)
(*                                                                         *)
(* Numbers.  The program computes with floats.  The model computes with    *)
(* exact rationals <<numerator, denominator>> (denominator > 0, lowest     *)
(* terms), so every equality below is an equality of exact values.  An     *)
(* angle is only ever produced by atan(t) and consumed by cos, sin or a    *)
(* rotation, so it is carried as its tangent t; the field of view is       *)
(* carried as tan(radians(fov/2)).  Square roots are taken exactly, so the *)
(* inputs are drawn from values whose roots are rational (Exact).          *)
(***************************************************************************)
EXTENDS Integers, Sequences, FiniteSets, TLC

\* ------------------------------------------------------------- rationals

Abs(x) == IF x < 0 THEN -x ELSE x

RECURSIVE GCD(_, _)
GCD(a, b) == IF b = 0 THEN a ELSE GCD(b, a % b)

Q(n, d) ==
    LET g == GCD(Abs(n), Abs(d))
        s == IF d < 0 THEN -1 ELSE 1
    IN  <<(s * n) \div g, (s * d) \div g>>

I(n) == <<n, 1>>
Zero == <<0, 1>>
One == <<1, 1>>

\* Sums go over the least common denominator and products are reduced crosswise
\* first, which keeps the intermediate integers small.
QAdd(a, b) ==
    IF a[1] = 0 THEN b
    ELSE IF b[1] = 0 THEN a
    ELSE LET g == GCD(a[2], b[2])
         IN  Q(a[1] * (b[2] \div g) + b[1] * (a[2] \div g), (a[2] \div g) * b[2])
QNeg(a) == <<-a[1], a[2]>>
QSub(a, b) == QAdd(a, QNeg(b))
QMul(a, b) ==
    IF a[1] = 0 \/ b[1] = 0 THEN Zero
    ELSE LET g1 == GCD(Abs(a[1]), b[2])
             g2 == GCD(Abs(b[1]), a[2])
         IN  <<(a[1] \div g1) * (b[1] \div g2), (a[2] \div g2) * (b[2] \div g1)>>
QDiv(a, b) == QMul(a, IF b[1] < 0 THEN <<-b[2], -b[1]>> ELSE <<b[2], b[1]>>)
QLt(a, b) ==
    LET g == GCD(a[2], b[2])
    IN  a[1] * (b[2] \div g) < b[1] * (a[2] \div g)
QGt(a, b) == QLt(b, a)
QLe(a, b) == ~QLt(b, a)

\* The integer square root of n >= 0, by Newton's iteration from x.
RECURSIVE RootFrom(_, _)
RootFrom(n, x) ==
    LET y == (x + n \div x) \div 2
    IN  IF y >= x THEN x ELSE RootFrom(n, y)
\* A number that is not less than the square root of n < 2^31.
RootAbove(n) ==
    IF n < 256 THEN 16
    ELSE IF n < 65536 THEN 256
    ELSE IF n < 16777216 THEN 4096
    ELSE 46341
ISqrt(n) == IF n = 0 THEN 0 ELSE RootFrom(n, RootAbove(n))
IsSquare(n) == n >= 0 /\ ISqrt(n) * ISqrt(n) = n
\* Whether sqrt(a) is rational.
Exact(a) == IsSquare(a[1]) /\ IsSquare(a[2])
\* sqrt(a), for an a with a rational root (and for no other a).
QSqrt(a) == CHOOSE r \in {<<ISqrt(a[1]), ISqrt(a[2])>>} : r[1] * r[1] = a[1] /\ r[2] * r[2] = a[2]

\* cos(atan(t)) and sin(atan(t)).
CosAtan(t) == QDiv(One, QSqrt(QAdd(One, QMul(t, t))))
SinAtan(t) == QMul(t, CosAtan(t))

\* ------------------------------------------ MVector, MPoint and MMatrix

\* An MVector is <<x, y, z>>, an MPoint is <<x, y, z, w>>, an MMatrix is four
\* rows of four elements; a point is a row vector and multiplies from the left.
MVector(x, y, z) == <<x, y, z>>
MPoint(x, y, z) == <<x, y, z, One>>

Dot3(u, v) == QAdd(QAdd(QMul(u[1], v[1]), QMul(u[2], v[2])), QMul(u[3], v[3]))
ExactVector(v) == Exact(Dot3(v, v))
\* MVector.normalize()
normalize(v) ==
    LET len == QSqrt(Dot3(v, v))
    IN  <<QDiv(v[1], len), QDiv(v[2], len), QDiv(v[3], len)>>

IdentityMatrix ==
    << <<One, Zero, Zero, Zero>>, <<Zero, One, Zero, Zero>>,
       <<Zero, Zero, One, Zero>>, <<Zero, Zero, Zero, One>> >>

\* MMatrix.getElement over a row, MMatrix.setElement over a row.
getRow(m, r) == m[r + 1]
setRow(m, r, row) == [m EXCEPT ![r + 1] = row]

\* The first k terms of the product of the row vector p and column c of m.
RECURSIVE DotTo(_, _, _, _)
DotTo(p, m, c, k) ==
    IF k = 0 THEN Zero ELSE QAdd(DotTo(p, m, c, k - 1), QMul(p[k], m[k][c]))
\* The first c elements of p * m.
RECURSIVE PointTimesTo(_, _, _)
PointTimesTo(p, m, c) ==
    IF c = 0 THEN <<>> ELSE Append(PointTimesTo(p, m, c - 1), DotTo(p, m, c, Len(m)))
\* MPoint * MMatrix
PointTimes(p, m) == PointTimesTo(p, m, Len(m[1]))
\* The first r rows of a * b.
RECURSIVE MatTimesTo(_, _, _)
MatTimesTo(a, b, r) ==
    IF r = 0 THEN <<>> ELSE Append(MatTimesTo(a, b, r - 1), PointTimes(a[r], b))
\* MMatrix * MMatrix
MatTimes(a, b) == MatTimesTo(a, b, Len(a))

\* The sequence s without its i-th element.
RemoveAt(s, i) == SubSeq(s, 1, i - 1) \o SubSeq(s, i + 1, Len(s))
Sign(r, c) == IF (r + c) % 2 = 0 THEN One ELSE <<-1, 1>>
QMul3(a, b, c) == QMul(QMul(a, b), c)
\* The determinant of the rows R and the columns C (three of each) of m.
Det3(m, R, C) ==
    QSub(QAdd(QAdd(QMul3(m[R[1]][C[1]], m[R[2]][C[2]], m[R[3]][C[3]]),
                   QMul3(m[R[1]][C[2]], m[R[2]][C[3]], m[R[3]][C[1]])),
              QMul3(m[R[1]][C[3]], m[R[2]][C[1]], m[R[3]][C[2]])),
         QAdd(QAdd(QMul3(m[R[1]][C[3]], m[R[2]][C[2]], m[R[3]][C[1]]),
                   QMul3(m[R[1]][C[2]], m[R[2]][C[1]], m[R[3]][C[3]])),
              QMul3(m[R[1]][C[1]], m[R[2]][C[3]], m[R[3]][C[2]])))
\* The cofactor of the element in row r and column c of m.
Cofactor(m, r, c) ==
    QMul(Sign(r, c), Det3(m, RemoveAt(<<1, 2, 3, 4>>, r), RemoveAt(<<1, 2, 3, 4>>, c)))
\* The determinant, expanded along the first row: its first c terms.
RECURSIVE Laplace(_, _)
Laplace(m, c) ==
    IF c = 0 THEN Zero
    ELSE QAdd(Laplace(m, c - 1), QMul(m[1][c], Cofactor(m, 1, c)))
Det(m) == Laplace(m, 4)
\* MMatrix.isSingular()
isSingular(m) == Det(m) = Zero
\* The inverse of a matrix that has one: adjugate over determinant d.
RECURSIVE InverseRow(_, _, _, _)
InverseRow(m, d, r, c) ==
    IF c = 0 THEN <<>>
    ELSE Append(InverseRow(m, d, r, c - 1), QDiv(Cofactor(m, c, r), d))
RECURSIVE InverseRows(_, _, _)
InverseRows(m, d, r) ==
    IF r = 0 THEN <<>>
    ELSE Append(InverseRows(m, d, r - 1), InverseRow(m, d, r, 4))
ExactInverse(m, d) == InverseRows(m, d, 4)

\* MTransformationMatrix().setToRotationAxis(axis, atan(t)).asMatrix(): the
\* rotation about the unit vector along axis, for row vectors.
RotationAxis(axis, t) ==
    LET u == normalize(axis)
        c == CosAtan(t)
        s == SinAtan(t)
        k == QSub(One, c)
        d(i) == QAdd(c, QMul(k, QMul(u[i], u[i])))
        o(i, j) == QMul(k, QMul(u[i], u[j]))
        w(i) == QMul(u[i], s)
    IN  << <<d(1), QAdd(o(1, 2), w(3)), QSub(o(1, 3), w(2)), Zero>>,
           <<QSub(o(2, 1), w(3)), d(2), QAdd(o(2, 3), w(1)), Zero>>,
           <<QAdd(o(3, 1), w(2)), QSub(o(3, 2), w(1)), d(3), Zero>>,
           <<Zero, Zero, Zero, One>> >>

\* Python's None, and a value that is or is not None.
None == <<>>

\* ------------------------------------------------------------ the scene

\* The scene's objects; each is a mesh, given by the list of its vertices in
\* object space.
Nodes == {"cube", "slab", "post"}
\* The objects a call of frame_camera_to_objects is given.
Objs == {"cube", "slab"}

Box(lo, hi) ==
    LET P(x, y, z) == MPoint(I(x), I(y), I(z))
    IN  << P(lo[1], lo[2], lo[3]), P(lo[1], lo[2], hi[3]),
           P(lo[1], hi[2], lo[3]), P(lo[1], hi[2], hi[3]),
           P(hi[1], lo[2], lo[3]), P(hi[1], lo[2], hi[3]),
           P(hi[1], hi[2], lo[3]), P(hi[1], hi[2], hi[3]) >>
Mesh(obj) ==
    IF obj = "cube" THEN Box(<<-1, -1, -1>>, <<1, 1, 1>>)
    ELSE IF obj = "slab" THEN Box(<<-2, -1, -1>>, <<2, 0, 1>>)
    ELSE Box(<<0, -3, 0>>, <<1, 3, 1>>)

Translation(x, y, z) == setRow(IdentityMatrix, 3, <<I(x), I(y), I(z), One>>)

\* The objects' world matrices when the program starts.
InitObjXform == [obj \in Nodes |->
    IF obj = "cube" THEN Translation(0, 0, 0)
    ELSE IF obj = "slab" THEN Translation(3, 1, -2)
    ELSE Translation(-2, 0, 1)]

\* The cameras a run may start with: the world matrix and what cmds.camera,
\* cmds.getAttr and cmds.objExists answer for it.  "persp" looks down -z at the
\* cube, which lies on its forward axis.
Flat(x, y, z) ==
    << <<One, Zero, Zero, Zero>>, <<Zero, One, Zero, Zero>>,
       <<Zero, Zero, Zero, Zero>>, <<I(x), I(y), I(z), One>> >>
Cameras ==
    { [name |-> "persp", tr |-> Translation(0, 0, 10),
       tanHalfFov |-> <<4, 3>>, render_height |-> I(1024), render_width |-> I(1024),
       vray |-> FALSE, horizontal_tilt |-> Zero, vertical_tilt |-> Zero,
       hfa |-> One, vfo |-> Zero, hfo |-> Zero],
      \* a V-Ray physical camera with a very wide lens, tilted and shifted
      [name |-> "vray", tr |-> Translation(0, 0, 10),
       tanHalfFov |-> I(375), render_height |-> I(1024), render_width |-> I(1024),
       vray |-> TRUE, horizontal_tilt |-> <<3, 4>>, vertical_tilt |-> <<3, 4>>,
       hfa |-> One, vfo |-> <<1, 1000>>, hfo |-> <<1, 1000>>],
      \* a camera scaled to nothing along its z axis: a singular world matrix
      [name |-> "flat", tr |-> Flat(0, 0, 10),
       tanHalfFov |-> <<3, 4>>, render_height |-> I(1024), render_width |-> I(1024),
       vray |-> FALSE, horizontal_tilt |-> Zero, vertical_tilt |-> Zero,
       hfa |-> One, vfo |-> Zero, hfo |-> Zero] }

\* The cameras the basis corrections are run on: plain cameras, which have no
\* tilt attributes, and V-Ray physical cameras, with every choice of zero and
\* non-zero tilts and film offsets, upright or turned about their z axis.
\* With tanHalfFov 3/8 a film offset of 1 gives a shift angle of atan(3/4) and
\* one of -16/9 gives -atan(4/3).
Turned(x, y, z) ==
    << <<<<3, 5>>, <<4, 5>>, Zero, Zero>>, <<<<-4, 5>>, <<3, 5>>, Zero, Zero>>,
       <<Zero, Zero, One, Zero>>, <<I(x), I(y), I(z), One>> >>
Tilts == {Zero, <<3, 4>>, <<-4, 3>>}
FilmOffsets == {Zero, One, <<-16, 9>>}
BasisCameras ==
    { [name |-> "physical", tr |-> tr,
       tanHalfFov |-> <<3, 8>>, render_height |-> I(1024), render_width |-> I(1024),
       vray |-> TRUE, horizontal_tilt |-> ht, vertical_tilt |-> vt,
       hfa |-> One, vfo |-> vfo, hfo |-> hfo] :
        tr \in {Translation(0, 0, 10), Turned(1, 2, 3)},
        ht \in Tilts, vt \in Tilts, vfo \in FilmOffsets, hfo \in FilmOffsets }
    \cup
    { [name |-> "plain", tr |-> tr,
       tanHalfFov |-> <<3, 8>>, render_height |-> I(1024), render_width |-> I(1024),
       vray |-> FALSE, horizontal_tilt |-> None, vertical_tilt |-> None,
       hfa |-> One, vfo |-> vfo, hfo |-> hfo] :
        tr \in {Translation(0, 0, 10), Turned(1, 2, 3)},
        vfo \in FilmOffsets, hfo \in FilmOffsets }

\* The host commands of node_get_bounding_box (lines 55, 61, 63, 65, 67, 68
\* and 70 of xform_utils.py), any of which the host may refuse for a node,
\* and the camera query of line 31.  A scene has at most one such fault, and
\* the command fails every time it is given that node.
SceneCommands ==
    {"xform_query", "xform_move", "duplicate", "makeIdentity",
     "exactWorldBoundingBox", "delete", "xform_restore"}
NoFault == [cmd |-> "none", node |-> "none"]
Faults ==
    {[cmd |-> c, node |-> o] : c \in SceneCommands, o \in Objs}
    \cup {[cmd |-> "camera_query", node |-> "camera"]}

\* The padding arguments a call may pass.
Paddings == {<<-1, 5>>, Zero, <<7, 32>>, <<499, 1000>>, <<3, 5>>, I(50)}

\* The number of calls of frame_camera_to_objects in one run.
MaxCalls == 2

RECURSIVE ListsOfLen(_, _)
ListsOfLen(S, n) ==
    IF n = 0 THEN {<<>>}
    ELSE {Append(l, o) : l \in ListsOfLen(S, n - 1), o \in S}
\* The lists get_min_max is given: distinct objects of the scene, in any order.
NodeLists ==
    {l \in UNION {ListsOfLen(Nodes, n) : n \in 0..Cardinality(Nodes)} :
        \A i, j \in 1..Len(l) : l[i] = l[j] => i = j}
\* The selections a solve is given as objs.
ObjLists == {l \in NodeLists : \A i \in 1..Len(l) : l[i] \in Objs}

VARIABLES
    camera,      \* the camera node's attributes (never written by the program)
    host,        \* what the host's MMatrix.inverse() does for a singular matrix
    fault,       \* the host command that fails in this scene, and on which node
    camXform,    \* the camera node's world matrix in the scene
    objXform,    \* each object's world matrix in the scene
    copies,      \* the "<obj>_copy_delete_me" nodes in the scene
    pc,          \* where the running call is: idle, min_max_h, min_max_v, solve
    calls,       \* calls made so far
    objs,        \* argument objs
    padding_arg, \* argument padding as passed
    padding,     \* local padding after lines 36-42
    cam_world,   \* the camera's world matrix as line 30 read it
    scene_before, \* the scene as it was when the call was made
    cam_tr,      \* local cam_tr, the working camera matrix
    horizontal_tilt, \* local horizontal_tilt (line 50), None while unbound
    vertical_tilt,   \* local vertical_tilt (line 51), None while unbound
    c_tr_h,      \* local c_tr_h
    c_tr_v,      \* local c_tr_v
    idx,         \* get_min_max: how many of objs the loop has done
    min_all,     \* get_min_max: local min_all
    max_all,     \* get_min_max: local max_all
    min_max_h,   \* local min_max_h
    min_max_v,   \* local min_max_v
    min_pos_h,   \* local min_pos_h
    min_pos_v,   \* local min_pos_v
    new_pos_cam, \* local new_pos before line 154 (camera space)
    outcome,     \* how the last call ended: none, ok, error
    result,      \* what the last call returned (None when it raised)
    raised,      \* what raised the exception the last call ended with
    prev         \* when the call before this one returned and framed the same
                 \* objs: the padding it was given and the position it returned

tiltVars == <<horizontal_tilt, vertical_tilt>>
solveVars == <<objs, padding_arg, padding, cam_world, scene_before, cam_tr, tiltVars, c_tr_h, c_tr_v>>
aggVars == <<idx, min_all, max_all, min_max_h, min_max_v>>
posVars == <<min_pos_h, min_pos_v, new_pos_cam>>
sceneVars == <<camXform, objXform, copies>>
vars == <<camera, host, fault, sceneVars, pc, calls, solveVars, aggVars, posVars, outcome, result, raised, prev>>

\* ------------------------------------------------- the host's MMatrix.inverse

\* MMatrix.inverse() takes no status argument and the program never asks
\* isSingular().  What the host does for a singular matrix is not defined: it
\* may raise, or hand back some matrix (the matrix itself and the identity
\* stand for those).  A host does the same thing every time.
HostInverses == {"raises", "returns_self", "returns_identity"}
Inverse(m, h) ==
    LET d == Det(m)
    IN  IF d # Zero THEN [raised |-> FALSE, value |-> ExactInverse(m, d)]
        ELSE IF h = "raises" THEN [raised |-> TRUE, value |-> m]
        ELSE IF h = "returns_self" THEN [raised |-> FALSE, value |-> m]
        ELSE [raised |-> FALSE, value |-> IdentityMatrix]

\* ------------------------------------------------------ xform_utils.py

\* The least and the greatest k-th coordinate of the points pts[1..n].
RECURSIVE LeastCoord(_, _, _)
LeastCoord(pts, k, n) ==
    IF n = 1 THEN pts[1][k]
    ELSE LET rest == LeastCoord(pts, k, n - 1)
         IN  IF QLt(pts[n][k], rest) THEN pts[n][k] ELSE rest
RECURSIVE GreatestCoord(_, _, _)
GreatestCoord(pts, k, n) ==
    IF n = 1 THEN pts[1][k]
    ELSE LET rest == GreatestCoord(pts, k, n - 1)
         IN  IF QGt(pts[n][k], rest) THEN pts[n][k] ELSE rest

\* cmds.xform(obj, worldSpace=True, matrix=m)
SceneSetXform(scene, obj, m) ==
    [scene EXCEPT !.objXform = [@ EXCEPT ![obj] = m]]
\* How many nodes are named obj + "_copy_delete_me" followed by a number or by
\* nothing; the host gives a new node the first of these names that is free.
CopiesOf(scene, obj) == Cardinality({c \in scene.copies : c.of = obj})
\* cmds.duplicate(obj, name=obj + "_copy_delete_me"): the copy has the
\* object's mesh and its matrix of the moment.
SceneDuplicate(scene, obj) ==
    [scene EXCEPT !.copies =
        @ \cup {[of |-> obj, n |-> CopiesOf(scene, obj),
                 tr |-> scene.objXform[obj], verts |-> Mesh(obj)]}]
\* obj_copy_name: the copy of obj made last.
IsNewest(scene, c, obj) == c.of = obj /\ c.n = CopiesOf(scene, obj) - 1
\* The points pts[1..n], each times the matrix m.
RECURSIVE PointsTimes(_, _, _)
PointsTimes(pts, m, n) ==
    IF n = 0 THEN <<>> ELSE Append(PointsTimes(pts, m, n - 1), PointTimes(pts[n], m))
\* cmds.makeIdentity(copy, apply=True, ...): bakes the matrix into the vertices.
Freeze(copy) ==
    IF copy.tr = IdentityMatrix THEN copy
    ELSE [copy EXCEPT !.tr = IdentityMatrix,
                      !.verts = PointsTimes(copy.verts, copy.tr, Len(copy.verts))]
SceneMakeIdentity(scene, obj) ==
    [scene EXCEPT !.copies = {IF IsNewest(scene, c, obj) THEN Freeze(c) ELSE c : c \in @}]
\* cmds.exactWorldBoundingBox(copy)
exactWorldBoundingBox(copy) ==
    LET pts == PointsTimes(copy.verts, copy.tr, Len(copy.verts))
        lo(k) == LeastCoord(pts, k, Len(pts))
        hi(k) == GreatestCoord(pts, k, Len(pts))
    IN  <<lo(1), lo(2), lo(3), hi(1), hi(2), hi(3)>>
\* cmds.delete(copy)
SceneDelete(scene, obj) ==
    [scene EXCEPT !.copies = {c \in @ : ~IsNewest(scene, c, obj)}]

\* Line 70 putting the object where line 61 moved it.
RestoredXform_Relative(mtrx_obj_orig, mtrx_obj_coord_relative) == mtrx_obj_coord_relative
\* The matrix the object is put back to at line 70.
RestoredXform(mtrx_obj_orig, mtrx_obj_coord_relative) == mtrx_obj_orig

\* node_get_bounding_box(obj_nm, mtrx_coord), with inverse the value that
\* mtrx_coord.inverse() gave: the scene it leaves and the list it returns.
node_get_bounding_box(scene, obj_nm, inverse) ==
    LET mtrx_obj_orig == scene.objXform[obj_nm]
        mtrx_obj_coord_relative == MatTimes(mtrx_obj_orig, inverse)
        moved == SceneSetXform(scene, obj_nm, mtrx_obj_coord_relative)
        frozen == SceneMakeIdentity(SceneDuplicate(moved, obj_nm), obj_nm)
        bb == exactWorldBoundingBox(CHOOSE c \in frozen.copies : IsNewest(frozen, c, obj_nm))
        deleted == SceneDelete(frozen, obj_nm)
        restored == SceneSetXform(deleted, obj_nm,
                        RestoredXform(mtrx_obj_orig, mtrx_obj_coord_relative))
    IN  [scene |-> restored,
         bb |-> <<MPoint(bb[1], bb[2], bb[3]), MPoint(bb[4], bb[5], bb[6])>>]

\* The scene node_get_bounding_box leaves when the host refuses command cmd
\* and the exception leaves the function: nothing after that line has run.
AbortedScene(scene, obj_nm, inverse, cmd) ==
    LET mtrx_obj_orig == scene.objXform[obj_nm]
        moved == SceneSetXform(scene, obj_nm, MatTimes(mtrx_obj_orig, inverse))
        copied == SceneDuplicate(moved, obj_nm)
        frozen == SceneMakeIdentity(copied, obj_nm)
    IN  IF cmd \in {"xform_query", "xform_move"} THEN scene
        ELSE IF cmd = "duplicate" THEN moved
        ELSE IF cmd = "makeIdentity" THEN copied
        ELSE IF cmd \in {"exactWorldBoundingBox", "delete"} THEN frozen
        ELSE SceneDelete(frozen, obj_nm)

\* The loop's pass with each max compared in an elif of its min's test.
Accumulate_Elif(mn, mx, node_bb) ==
    LET v_min == node_bb[1]
        v_max == node_bb[2]
    IN  IF mn = None THEN <<v_min, v_max>>
        ELSE LET lo(k) == IF QLt(v_min[k], mn[k]) THEN v_min[k] ELSE mn[k]
                 hi(k) == IF ~QLt(v_min[k], mn[k]) /\ QGt(v_max[k], mx[k])
                          THEN v_max[k] ELSE mx[k]
             IN  << <<lo(1), lo(2), lo(3), mn[4]>>, <<hi(1), hi(2), hi(3), mx[4]>> >>
\* The loop's pass with the test of the min corner turned round.
Accumulate_Greater(mn, mx, node_bb) ==
    LET v_min == node_bb[1]
        v_max == node_bb[2]
    IN  IF mn = None THEN <<v_min, v_max>>
        ELSE LET lo(k) == IF QGt(v_min[k], mn[k]) THEN v_min[k] ELSE mn[k]
                 hi(k) == IF QGt(v_max[k], mx[k]) THEN v_max[k] ELSE mx[k]
             IN  << <<lo(1), lo(2), lo(3), mn[4]>>, <<hi(1), hi(2), hi(3), mx[4]>> >>
\* One pass of the loop of get_min_max (lines 19-36): the new <<min_all, max_all>>.
Accumulate(mn, mx, node_bb) ==
    LET v_min == node_bb[1]
        v_max == node_bb[2]
    IN  IF mn = None THEN <<v_min, v_max>>
        ELSE LET lo(k) == IF QLt(v_min[k], mn[k]) THEN v_min[k] ELSE mn[k]
                 hi(k) == IF QGt(v_max[k], mx[k]) THEN v_max[k] ELSE mx[k]
             IN  << <<lo(1), lo(2), lo(3), mn[4]>>, <<hi(1), hi(2), hi(3), mx[4]>> >>

\* get_min_max returning a box at the origin for no objects.
GetMinMaxResult_Default(mn, mx) ==
    IF mn = None THEN <<MPoint(Zero, Zero, Zero), MPoint(Zero, Zero, Zero)>> ELSE <<mn, mx>>
\* What get_min_max returns (lines 37-40).
GetMinMaxResult(mn, mx) == IF mn = None THEN None ELSE <<mn, mx>>

\* The loop of get_min_max over the first n of objs: the scene it leaves and
\* min_all and max_all.
RECURSIVE GetMinMaxLoop(_, _, _, _)
GetMinMaxLoop(scene, os, inverse, n) ==
    IF n = 0 THEN [scene |-> scene, min_all |-> None, max_all |-> None]
    ELSE LET before == GetMinMaxLoop(scene, os, inverse, n - 1)
             got == node_get_bounding_box(before.scene, os[n], inverse)
             acc == Accumulate(before.min_all, before.max_all, got.bb)
         IN  [scene |-> got.scene, min_all |-> acc[1], max_all |-> acc[2]]
\* get_min_max(objs, tr_matrix) as one function, with inverse the value that
\* tr_matrix.inverse() gives.
get_min_max(scene, os, inverse) ==
    LET done == GetMinMaxLoop(scene, os, inverse, Len(os))
    IN  GetMinMaxResult(done.min_all, done.max_all)

\* ----------------------------------------------------- camera_utils.py

\* frame_ar (line 34), ang_ht (line 45) and ang_vt (line 46).
frame_ar(cam) == QDiv(QMul(One, cam.render_height), cam.render_width)
ang_ht(cam) == cam.tanHalfFov
ang_vt(cam) == QMul(ang_ht(cam), frame_ar(cam))

\* Padding without the test of line 37.
ClampPadding_NoFloor(p) ==
    IF QGt(QMul(p, I(2)), <<499, 500>>) THEN <<499, 1000>> ELSE p
\* Padding (lines 36-42).
ClampPadding(p) ==
    LET p1 == IF QLt(p, Zero) THEN Zero ELSE p
    IN  IF QGt(QMul(p1, I(2)), <<499, 500>>) THEN <<499, 1000>> ELSE p1

\* MVector(*[cam_tr.getElement(r, c) for c in range(3)])
Axis(m, r) == MVector(m[r + 1][1], m[r + 1][2], m[r + 1][3])

\* Lens tilt (lines 52-60 and 62-70).
VerticalTilt(cam, m) ==
    IF cam.vertical_tilt # Zero
    THEN LET c_tr_tilt_mtx ==
                 MatTimes(m, RotationAxis(Axis(m, 0), QNeg(cam.vertical_tilt)))
         IN  setRow(m, 1, getRow(c_tr_tilt_mtx, 1))
    ELSE m
HorizontalTilt(cam, m) ==
    IF cam.horizontal_tilt # Zero
    THEN LET c_tr_hor_tilt_mtx ==
                 MatTimes(m, RotationAxis(Axis(m, 1), cam.horizontal_tilt))
         IN  setRow(m, 0, getRow(c_tr_hor_tilt_mtx, 0))
    ELSE m
\* is_vray_cam(cam): cmds.objExists(cam + ".vrayCameraPhysicalFOV")
is_vray_cam(cam) == cam.vray
\* The locals of lines 50 and 51: bound only when is_vray_cam(cam).
TiltRead(cam, attr) == IF is_vray_cam(cam) THEN cam[attr] ELSE None
\* is_vray_cam(cam) decides whether the tilt attributes are read at all.
LensTilt(cam, m) ==
    IF is_vray_cam(cam) THEN HorizontalTilt(cam, VerticalTilt(cam, m)) ELSE m

\* tan(c_tr_shift_x_ang) (lines 75, 80, 81) and tan(c_tr_shift_y_ang) (95, 96).
VerticalShiftTan(cam) ==
    LET vfa == QMul(cam.hfa, frame_ar(cam))
        vertical_shift == QDiv(cam.vfo, vfa)
    IN  QMul(QMul(ang_vt(cam), I(2)), vertical_shift)
HorizontalShiftTan(cam) ==
    LET horizontal_shift == QDiv(cam.hfo, cam.hfa)
    IN  QMul(QMul(ang_ht(cam), I(2)), horizontal_shift)

\* The vertical shift taking every row of the rotated matrix.
VerticalShift_EveryRow(cam, m) ==
    IF cam.vfo # Zero
    THEN LET t == VerticalShiftTan(cam)
             c_tr_shift_x_mtx == MatTimes(m, RotationAxis(Axis(m, 0), t))
             z(c) == QDiv(c_tr_shift_x_mtx[3][c], CosAtan(t))
         IN  setRow(c_tr_shift_x_mtx, 2, <<z(1), z(2), z(3), z(4)>>)
    ELSE m
\* Lens shifting (lines 77-89 and 92-104).
VerticalShift(cam, m) ==
    IF cam.vfo # Zero
    THEN LET t == VerticalShiftTan(cam)
             c_tr_shift_x_mtx == MatTimes(m, RotationAxis(Axis(m, 0), t))
             z(c) == QDiv(c_tr_shift_x_mtx[3][c], CosAtan(t))
         IN  setRow(m, 2, <<z(1), z(2), z(3), z(4)>>)
    ELSE m
HorizontalShift(cam, m) ==
    IF cam.hfo # Zero
    THEN LET t == HorizontalShiftTan(cam)
             c_tr_shift_y_mtx == MatTimes(m, RotationAxis(Axis(m, 1), QNeg(t)))
             z(c) == QDiv(c_tr_shift_y_mtx[3][c], CosAtan(t))
         IN  setRow(m, 2, <<z(1), z(2), z(3), z(4)>>)
    ELSE m

\* cam_tr with the lens shifts taken before the lens tilts.
CorrectedBasis_ShiftFirst(cam, m) == LensTilt(cam, HorizontalShift(cam, VerticalShift(cam, m)))
\* cam_tr as lines 48-104 leave it.
CorrectedBasis(cam, m) == HorizontalShift(cam, VerticalShift(cam, LensTilt(cam, m)))

\* The padding vectors taking no padding.
PaddingFactor_Ignored(pad) == One
\* The padding vectors before normalize() (lines 108-111).
PaddingFactor(pad) == QSub(One, QMul(pad, I(2)))
RawRight(cam, pad) == MVector(QMul(ang_ht(cam), PaddingFactor(pad)), Zero, <<-1, 1>>)
RawLeft(cam, pad) == MVector(QMul(QNeg(ang_ht(cam)), PaddingFactor(pad)), Zero, <<-1, 1>>)
RawBottom(cam, pad) == MVector(Zero, QMul(QNeg(ang_vt(cam)), PaddingFactor(pad)), <<-1, 1>>)
RawTop(cam, pad) == MVector(Zero, QMul(ang_vt(cam), PaddingFactor(pad)), <<-1, 1>>)

Row4(v) == <<v[1], v[2], v[3], Zero>>
\* c_tr_h_mtrx (lines 115-124) and c_tr_v_mtrx (lines 129-138).
c_tr_h_mtrx(cam, pad) ==
    << Row4(normalize(RawRight(cam, pad))), Row4(normalize(RawLeft(cam, pad))),
       <<Zero, One, Zero, Zero>>, <<Zero, Zero, Zero, One>> >>
c_tr_v_mtrx(cam, pad) ==
    << Row4(normalize(RawBottom(cam, pad))), Row4(normalize(RawTop(cam, pad))),
       <<One, Zero, Zero, Zero>>, <<Zero, Zero, Zero, One>> >>

\* Whether the square roots the padding vectors take are rational.  (Those of
\* the rotations are: the cameras are chosen so, and the program never changes
\* the rows they are read from.)
Representable(cam, p) ==
    /\ ExactVector(RawRight(cam, ClampPadding(p)))
    /\ ExactVector(RawTop(cam, ClampPadding(p)))

\* min_pos_h and min_pos_v (lines 146 and 148).
MinPos(min_max, c_tr, inverse) ==
    PointTimes(PointTimes(MPoint(min_max[1][1], min_max[1][2], Zero), c_tr), inverse)
\* new_pos with the test of line 151 turned round.
NewPos_Least(h, v) == MPoint(h[1], v[2], IF QLt(h[3], v[3]) THEN h[3] ELSE v[3])
\* new_pos in camera space (line 151).
NewPos(h, v) == MPoint(h[1], v[2], IF QGt(h[3], v[3]) THEN h[3] ELSE v[3])
\* new_pos *= cam_tr (line 154).
ToWorld(pos, m) == PointTimes(pos, m)
\* The write of line 156 putting the working matrix cam_tr on the camera.
WriteCamera_Working(m, working, pos) ==
    setRow(working, 3, <<pos[1], pos[2], pos[3], m[4][4]>>)
\* cmds.xform(cam, worldSpace=True, translation=[new_pos.x, new_pos.y, new_pos.z])
WriteCamera(m, working, pos) == setRow(m, 3, <<pos[1], pos[2], pos[3], m[4][4]>>)

\* ------------------------------------------------------------- actions

Init ==
    /\ camera \in Cameras
    \* a camera with an inverse never finds out what the host would do
    /\ host \in IF isSingular(camera.tr) THEN HostInverses ELSE {"raises"}
    /\ fault = NoFault
    /\ camXform = camera.tr
    /\ objXform = InitObjXform
    /\ copies = {}
    /\ pc = "idle"
    /\ calls = 0
    /\ objs = <<>>
    /\ padding_arg = Zero
    /\ padding = Zero
    /\ cam_world = None
    /\ scene_before = None
    /\ cam_tr = None
    /\ horizontal_tilt = None
    /\ vertical_tilt = None
    /\ c_tr_h = None
    /\ c_tr_v = None
    /\ idx = 0
    /\ min_all = None
    /\ max_all = None
    /\ min_max_h = None
    /\ min_max_v = None
    /\ min_pos_h = None
    /\ min_pos_v = None
    /\ new_pos_cam = None
    /\ outcome = "none"
    /\ result = None
    /\ raised = None
    /\ prev = None

\* An exception leaves frame_camera_to_objects.
Raise(by) ==
    /\ pc' = "idle"
    /\ outcome' = "error"
    /\ result' = None
    /\ raised' = by

\* frame_camera_to_objects(cam, os, p) up to line 139, or up to line 31 when the
\* camera query fails there.
Call(os, p) ==
    /\ pc = "idle"
    /\ calls < MaxCalls
    /\ Representable(camera, p)
    /\ calls' = calls + 1
    /\ objs' = os
    /\ padding_arg' = p
    /\ cam_world' = camXform
    /\ scene_before' = [camXform |-> camXform, objXform |-> objXform, copies |-> copies]
    /\ idx' = 0
    /\ min_all' = None
    /\ max_all' = None
    /\ min_max_h' = None
    /\ min_max_v' = None
    /\ min_pos_h' = None
    /\ min_pos_v' = None
    /\ new_pos_cam' = None
    /\ prev' = IF outcome = "ok" /\ objs = os
                THEN [padding |-> padding_arg, pos |-> result]
                ELSE None
    /\ IF fault.cmd = "camera_query"
       THEN /\ padding' = p
            /\ cam_tr' = cam_world'
            /\ horizontal_tilt' = None
            /\ vertical_tilt' = None
            /\ c_tr_h' = None
            /\ c_tr_v' = None
            /\ Raise("camera_query")
       ELSE /\ padding' = ClampPadding(p)
            /\ cam_tr' = CorrectedBasis(camera, cam_world')
            /\ horizontal_tilt' = TiltRead(camera, "horizontal_tilt")
            /\ vertical_tilt' = TiltRead(camera, "vertical_tilt")
            /\ c_tr_h' = MatTimes(c_tr_h_mtrx(camera, padding'), cam_tr')
            /\ c_tr_v' = MatTimes(c_tr_v_mtrx(camera, padding'), cam_tr')
            /\ pc' = "min_max_h"
            /\ outcome' = "none"
            /\ result' = None
            /\ raised' = None
    /\ UNCHANGED <<camera, host, fault, sceneVars>>

\* One pass of the loop of get_min_max, with its call of node_get_bounding_box.
GetMinMaxIter ==
    /\ pc \in {"min_max_h", "min_max_v"}
    /\ idx < Len(objs)
    /\ LET obj == objs[idx + 1]
           inv == Inverse(IF pc = "min_max_h" THEN c_tr_h ELSE c_tr_v, host)
       IN
        IF fault = [cmd |-> "xform_query", node |-> obj]
        THEN /\ Raise("xform_query")
             /\ UNCHANGED <<camera, host, fault, sceneVars, calls, solveVars, aggVars, posVars, prev>>
        ELSE IF inv.raised
        THEN /\ Raise("inverse")
             /\ UNCHANGED <<camera, host, fault, sceneVars, calls, solveVars, aggVars, posVars, prev>>
        ELSE IF fault.node = obj
        THEN LET left == AbortedScene([objXform |-> objXform, copies |-> copies],
                                      obj, inv.value, fault.cmd)
             IN  /\ objXform' = left.objXform
                 /\ copies' = left.copies
                 /\ Raise(fault.cmd)
                 /\ UNCHANGED <<camera, host, fault, camXform, calls, solveVars, aggVars,
                                posVars, prev>>
        ELSE LET got == node_get_bounding_box(
                            [objXform |-> objXform, copies |-> copies],
                            obj, inv.value)
                 acc == Accumulate(min_all, max_all, got.bb)
             IN  /\ objXform' = got.scene.objXform
                 /\ copies' = got.scene.copies
                 /\ min_all' = acc[1]
                 /\ max_all' = acc[2]
                 /\ idx' = idx + 1
                 /\ UNCHANGED <<camera, host, fault, camXform, pc, calls, solveVars, min_max_h,
                                min_max_v, posVars, outcome, result, raised, prev>>

\* get_min_max returns (lines 37-40) to line 142 or to line 143.
GetMinMaxReturn ==
    /\ pc \in {"min_max_h", "min_max_v"}
    /\ idx = Len(objs)
    /\ IF pc = "min_max_h"
       THEN /\ min_max_h' = GetMinMaxResult(min_all, max_all)
            /\ pc' = "min_max_v"
            /\ UNCHANGED min_max_v
       ELSE /\ min_max_v' = GetMinMaxResult(min_all, max_all)
            /\ pc' = "solve"
            /\ UNCHANGED min_max_h
    /\ idx' = 0
    /\ min_all' = None
    /\ max_all' = None
    /\ UNCHANGED <<camera, host, fault, sceneVars, calls, solveVars, posVars, outcome, result, raised, prev>>

\* Lines 146-158: the position, the write to the camera and the return.
PositionSolve ==
    /\ pc = "solve"
    /\ IF min_max_h = None \/ min_max_v = None
       THEN \* None[0] raises TypeError
            /\ Raise("TypeError")
            /\ UNCHANGED <<camXform, posVars>>
       ELSE LET inv == Inverse(cam_tr, host)
            IN
            IF inv.raised
            THEN /\ Raise("inverse")
                 /\ UNCHANGED <<camXform, posVars>>
            ELSE LET h == MinPos(min_max_h, c_tr_h, inv.value)
                     v == MinPos(min_max_v, c_tr_v, inv.value)
                     new_pos == ToWorld(NewPos(h, v), cam_tr)
                 IN  /\ min_pos_h' = h
                     /\ min_pos_v' = v
                     /\ new_pos_cam' = NewPos(h, v)
                     /\ camXform' = WriteCamera(camXform, cam_tr, new_pos)
                     /\ result' = new_pos
                     /\ outcome' = "ok"
                     /\ raised' = None
                     /\ pc' = "idle"
    /\ UNCHANGED <<camera, host, fault, objXform, copies, calls, solveVars, aggVars, prev>>

Next ==
    \/ \E os \in ObjLists, p \in Paddings : Call(os, p)
    \/ GetMinMaxIter
    \/ GetMinMaxReturn
    \/ PositionSolve

Spec == Init /\ [][Next]_vars

\* The cameras of the scenes with a fault: those without lens tilt.  An
\* object that a failed query leaves displaced is displaced again by every
\* later call, and the tilted camera's frames take its coordinates past 32
\* bits.
FaultCameras == {c \in Cameras : ~is_vray_cam(c)}
\* The program in a scene where the host may refuse one command for one node.
InitFault ==
    /\ camera \in FaultCameras
    /\ host \in IF isSingular(camera.tr) THEN HostInverses ELSE {"raises"}
    /\ fault \in Faults \cup {NoFault}
    /\ camXform = camera.tr
    /\ objXform = InitObjXform
    /\ copies = {}
    /\ pc = "idle"
    /\ calls = 0
    /\ objs = <<>>
    /\ padding_arg = Zero
    /\ padding = Zero
    /\ cam_world = None
    /\ scene_before = None
    /\ cam_tr = None
    /\ horizontal_tilt = None
    /\ vertical_tilt = None
    /\ c_tr_h = None
    /\ c_tr_v = None
    /\ idx = 0
    /\ min_all = None
    /\ max_all = None
    /\ min_max_h = None
    /\ min_max_v = None
    /\ min_pos_h = None
    /\ min_pos_v = None
    /\ new_pos_cam = None
    /\ outcome = "none"
    /\ result = None
    /\ raised = None
    /\ prev = None

SpecFault == InitFault /\ [][Next]_vars

\* A call that has reached line 142 with any list of objects of the scene, to
\* run get_min_max on both frames.
InitMinMax ==
    /\ camera \in Cameras
    /\ host \in IF isSingular(camera.tr) THEN HostInverses ELSE {"raises"}
    /\ fault = NoFault
    /\ camXform = camera.tr
    /\ objXform = InitObjXform
    /\ copies = {}
    /\ pc = "min_max_h"
    /\ calls = 1
    /\ objs \in NodeLists
    /\ padding_arg \in {p \in Paddings : Representable(camera, p)}
    /\ padding = ClampPadding(padding_arg)
    /\ cam_world = camXform
    /\ scene_before = [camXform |-> camXform, objXform |-> objXform, copies |-> copies]
    /\ cam_tr = CorrectedBasis(camera, cam_world)
    /\ horizontal_tilt = TiltRead(camera, "horizontal_tilt")
    /\ vertical_tilt = TiltRead(camera, "vertical_tilt")
    /\ c_tr_h = MatTimes(c_tr_h_mtrx(camera, padding), cam_tr)
    /\ c_tr_v = MatTimes(c_tr_v_mtrx(camera, padding), cam_tr)
    /\ idx = 0
    /\ min_all = None
    /\ max_all = None
    /\ min_max_h = None
    /\ min_max_v = None
    /\ min_pos_h = None
    /\ min_pos_v = None
    /\ new_pos_cam = None
    /\ outcome = "none"
    /\ result = None
    /\ raised = None
    /\ prev = None

NextMinMax ==
    \/ GetMinMaxIter
    \/ GetMinMaxReturn

SpecMinMax == InitMinMax /\ [][NextMinMax]_vars

\* A call that has reached line 48, to run the corrections of lines 48-104 one
\* at a time on the working matrix cam_tr.
InitBasis ==
    /\ camera \in BasisCameras
    /\ host = "raises"
    /\ fault = NoFault
    /\ camXform = camera.tr
    /\ objXform = InitObjXform
    /\ copies = {}
    /\ pc = "lens_tilt"
    /\ calls = 1
    /\ objs = <<"cube">>
    /\ padding_arg = Zero
    /\ padding = ClampPadding(padding_arg)
    /\ cam_world = camXform
    /\ scene_before = [camXform |-> camXform, objXform |-> objXform, copies |-> copies]
    /\ cam_tr = cam_world
    /\ horizontal_tilt = None
    /\ vertical_tilt = None
    /\ c_tr_h = None
    /\ c_tr_v = None
    /\ idx = 0
    /\ min_all = None
    /\ max_all = None
    /\ min_max_h = None
    /\ min_max_v = None
    /\ min_pos_h = None
    /\ min_pos_v = None
    /\ new_pos_cam = None
    /\ outcome = "none"
    /\ result = None
    /\ raised = None
    /\ prev = None

basisFrame == <<camera, host, fault, sceneVars, calls, objs, padding_arg, padding, cam_world, scene_before,
                c_tr_h, c_tr_v, aggVars, posVars, outcome, result, raised, prev>>

\* Lines 49-51: the test of is_vray_cam and the reads of the tilt attributes.
LensTiltRead ==
    /\ pc = "lens_tilt"
    /\ IF is_vray_cam(camera)
       THEN /\ horizontal_tilt' = camera.horizontal_tilt
            /\ vertical_tilt' = camera.vertical_tilt
            /\ pc' = "vertical_tilt"
       ELSE /\ UNCHANGED tiltVars
            /\ pc' = "vertical_shift"
    /\ UNCHANGED <<cam_tr, basisFrame>>
\* Lines 52-60.
VerticalTiltStep ==
    /\ pc = "vertical_tilt"
    /\ cam_tr' = VerticalTilt(camera, cam_tr)
    /\ pc' = "horizontal_tilt"
    /\ UNCHANGED <<tiltVars, basisFrame>>
\* Lines 62-70.
HorizontalTiltStep ==
    /\ pc = "horizontal_tilt"
    /\ cam_tr' = HorizontalTilt(camera, cam_tr)
    /\ pc' = "vertical_shift"
    /\ UNCHANGED <<tiltVars, basisFrame>>
\* Lines 73-89.
VerticalShiftStep ==
    /\ pc = "vertical_shift"
    /\ cam_tr' = VerticalShift(camera, cam_tr)
    /\ pc' = "horizontal_shift"
    /\ UNCHANGED <<tiltVars, basisFrame>>
\* Lines 90-104, leaving the call at line 108.
HorizontalShiftStep ==
    /\ pc = "horizontal_shift"
    /\ cam_tr' = HorizontalShift(camera, cam_tr)
    /\ pc' = "frames"
    /\ UNCHANGED <<tiltVars, basisFrame>>

NextBasis ==
    \/ LensTiltRead
    \/ VerticalTiltStep
    \/ HorizontalTiltStep
    \/ VerticalShiftStep
    \/ HorizontalShiftStep

SpecBasis == InitBasis /\ [][NextBasis]_vars

\* ------------------------------------------------------------- properties

\* The last call returned.
Returned == pc = "idle" /\ outcome = "ok"
\* The scene as node_get_bounding_box finds it.
Scene == [objXform |-> objXform, copies |-> copies]

\* C1: the padding in effect is clamp(p) of the padding p passed: 0 when p < 0,
\* 0.499 when 2*p > 0.998, p otherwise.  It lies in [0, 0.499], is 0 for every
\* negative p and 0.499 for every p >= 0.499, and 1 - 2*padding is positive.
C1_PaddingClamped ==
    calls > 0 =>
        /\ padding = IF QLt(padding_arg, Zero) THEN Zero
                     ELSE IF QGt(QMul(I(2), padding_arg), <<998, 1000>>)
                          THEN <<499, 1000>>
                          ELSE padding_arg
        /\ QLe(Zero, padding)
        /\ QLe(padding, <<499, 1000>>)
        /\ (QLt(padding_arg, Zero) => padding = Zero)
        /\ (QLe(<<499, 1000>>, padding_arg) => padding = <<499, 1000>>)
        /\ QGt(QSub(One, QMul(I(2), padding)), Zero)
C1_Witness ==
    /\ Returned
    /\ padding_arg = I(50)
    /\ padding = <<499, 1000>>

\* C2: a call with an empty list of objects ends in an error: it returns no
\* position and the camera is where it was.
C2_EmptyObjsRaise ==
    calls > 0 /\ objs = <<>> =>
        /\ outcome # "ok"
        /\ result = None
        /\ camXform = cam_world
        /\ (pc = "idle" => outcome = "error")
C2_Witness ==
    /\ pc = "idle"
    /\ calls > 0
    /\ objs = <<>>
    /\ outcome = "error"
    /\ min_max_h = None

\* C3: when the camera's world matrix or the corrected basis has no inverse,
\* the call ends in an error and the camera is where it was.
C3_SingularCameraAborts ==
    calls > 0 /\ (isSingular(cam_world) \/ isSingular(cam_tr)) =>
        /\ outcome # "ok"
        /\ camXform = cam_world

\* C4: node_get_bounding_box leaves every object's world matrix as it found it
\* and leaves no "_copy_delete_me" node, so get_min_max and a whole solve do too.
C4_BoundingBoxRestores ==
    /\ objXform = InitObjXform
    /\ copies = {}
C4_Witness ==
    /\ Returned
    /\ Len(objs) = 2
    /\ objXform = InitObjXform
    /\ copies = {}

\* C5: a call that returns writes the camera once: its translation becomes the
\* position returned, and the rest of its world matrix is as line 30 read it.
C5_OnlyTranslationWritten ==
    /\ calls > 0 /\ ~Returned => camXform = cam_world
    /\ Returned =>
        /\ \A r \in 0..2 : getRow(camXform, r) = getRow(cam_world, r)
        /\ getRow(camXform, 3) = <<result[1], result[2], result[3], cam_world[4][4]>>
C5_Witness ==
    /\ Returned
    /\ camera.vray
    /\ cam_tr # cam_world
    /\ getRow(camXform, 3) # getRow(cam_world, 3)
    /\ \A r \in 0..2 : getRow(camXform, r) = getRow(cam_world, r)

\* Two lists hold the same objects.
SameObjects(a, b) ==
    /\ Len(a) = Len(b)
    /\ {a[i] : i \in 1..Len(a)} = {b[i] : i \in 1..Len(b)}

\* C6: get_min_max returns the same [min, max] for every order of a non-empty
\* list of objects, the frame matrix and the objects being the same.
C6_OrderIndependent ==
    pc = "solve" /\ objs # <<>> =>
        LET inverse_h == Inverse(c_tr_h, host).value
            inverse_v == Inverse(c_tr_v, host).value
        IN  \A q \in NodeLists : SameObjects(q, objs) =>
                /\ get_min_max(Scene, q, inverse_h) = min_max_h
                /\ get_min_max(Scene, q, inverse_v) = min_max_v
C6_Witness ==
    /\ pc = "solve"
    /\ objs = <<"slab", "post", "cube">>
    /\ min_max_h = get_min_max(Scene, <<"cube", "slab", "post">>, Inverse(c_tr_h, host).value)
    /\ min_max_h # get_min_max(Scene, <<"cube", "slab">>, Inverse(c_tr_h, host).value)

\* The boxes node_get_bounding_box returns for os[1..n] in a frame.
RECURSIVE BoxesOf(_, _, _)
BoxesOf(os, inverse, n) ==
    IF n = 0 THEN <<>>
    ELSE Append(BoxesOf(os, inverse, n - 1),
                node_get_bounding_box(Scene, os[n], inverse).bb)
\* mm is, coordinate by coordinate, the least of the min corners and the
\* greatest of the max corners of the boxes, and min <= max when the boxes'
\* are.
IsExtent(mm, boxes) ==
    \A k \in 1..3 :
        /\ \A i \in 1..Len(boxes) :
            /\ QLe(mm[1][k], boxes[i][1][k])
            /\ QLe(boxes[i][2][k], mm[2][k])
        /\ \E i \in 1..Len(boxes) : mm[1][k] = boxes[i][1][k]
        /\ \E i \in 1..Len(boxes) : mm[2][k] = boxes[i][2][k]
        /\ ((\A i \in 1..Len(boxes) : QLe(boxes[i][1][k], boxes[i][2][k]))
            => QLe(mm[1][k], mm[2][k]))

\* C7: for a non-empty list get_min_max returns the componentwise minimum of
\* the objects' min corners and maximum of their max corners, with min <= max.
C7_ComponentwiseExtent ==
    pc = "solve" /\ objs # <<>> =>
        /\ IsExtent(min_max_h, BoxesOf(objs, Inverse(c_tr_h, host).value, Len(objs)))
        /\ IsExtent(min_max_v, BoxesOf(objs, Inverse(c_tr_v, host).value, Len(objs)))
C7_Witness ==
    /\ pc = "solve"
    /\ Len(objs) = 3
    /\ LET boxes == BoxesOf(objs, Inverse(c_tr_h, host).value, 3)
       IN  /\ IsExtent(min_max_h, boxes)
           /\ \A i \in 1..3 : min_max_h # boxes[i]

\* C8: the position in camera space is (minPosH.x, minPosV.y, the greater of
\* minPosH.z and minPosV.z), minPosH and minPosV being the frames' minimum
\* points with the third coordinate 0, taken to camera space.
C8_CameraSpacePosition ==
    Returned =>
        /\ min_pos_h = PointTimes(PointTimes(
                <<min_max_h[1][1], min_max_h[1][2], Zero, One>>, c_tr_h),
                Inverse(cam_tr, host).value)
        /\ min_pos_v = PointTimes(PointTimes(
                <<min_max_v[1][1], min_max_v[1][2], Zero, One>>, c_tr_v),
                Inverse(cam_tr, host).value)
        /\ new_pos_cam[1] = min_pos_h[1]
        /\ new_pos_cam[2] = min_pos_v[2]
        /\ QLe(min_pos_h[3], new_pos_cam[3])
        /\ QLe(min_pos_v[3], new_pos_cam[3])
        /\ new_pos_cam[3] \in {min_pos_h[3], min_pos_v[3]}
C8_Witness ==
    /\ Returned
    /\ QLt(min_pos_h[3], min_pos_v[3])
    /\ new_pos_cam[3] = min_pos_v[3]

\* C9: a call with the objects and the padding of the call before it, which
\* returned, returns the same position: its offset in camera space is zero.
C9_FixedPoint ==
    Returned /\ prev # None /\ prev.padding = padding_arg =>
        /\ result = prev.pos
        /\ new_pos_cam = MPoint(Zero, Zero, Zero)
\* The same for a camera whose world matrix has an inverse.
C9_FixedPointInvertible ==
    ~isSingular(camera.tr) => C9_FixedPoint
C9_Witness ==
    /\ Returned
    /\ prev # None
    /\ prev.padding = padding_arg
    /\ camera.vray
    /\ Len(objs) = 2
    /\ result = prev.pos

\* The square of the distance between two points.
Dist2(a, b) ==
    QAdd(QAdd(QMul(QSub(a[1], b[1]), QSub(a[1], b[1])),
              QMul(QSub(a[2], b[2]), QSub(a[2], b[2]))),
         QMul(QSub(a[3], b[3]), QSub(a[3], b[3])))
\* Where the cube is.
CubeCentre == getRow(objXform["cube"], 3)
\* The cube's centre lies on the forward axis (-z) of the camera matrix m.
OnForwardAxis(m) ==
    LET d == MVector(QSub(CubeCentre[1], m[4][1]), QSub(CubeCentre[2], m[4][2]),
                     QSub(CubeCentre[3], m[4][3]))
        f == MVector(QNeg(m[3][1]), QNeg(m[3][2]), QNeg(m[3][3]))
    IN  /\ QMul(d[1], f[2]) = QMul(d[2], f[1])
        /\ QMul(d[2], f[3]) = QMul(d[3], f[2])
        /\ QMul(d[3], f[1]) = QMul(d[1], f[3])
        /\ QGt(Dot3(d, f), Zero)
\* The call frames the cube alone, on the forward axis of a camera without
\* lens shift or lens tilt, and so did the call before it.
CubeAhead ==
    /\ Returned
    /\ prev # None
    /\ objs = <<"cube">>
    /\ camera.vfo = Zero /\ camera.hfo = Zero
    /\ camera.vertical_tilt = Zero /\ camera.horizontal_tilt = Zero
    /\ OnForwardAxis(cam_world)

\* C10 as stated: of two paddings p1 < p2, p2 puts the camera strictly farther
\* from the cube.
C10_PaddingMonotonic ==
    CubeAhead /\ QLt(prev.padding, padding_arg) =>
        QLt(Dist2(prev.pos, CubeCentre), Dist2(result, CubeCentre))

\* C10: of two paddings p1 < p2, p2 puts the camera strictly farther from the
\* cube when clamp(p1) < clamp(p2), and in the same place when the two clamp
\* to the same padding.
C10_PaddingMonotonicClamped ==
    CubeAhead /\ QLt(prev.padding, padding_arg) =>
        /\ (QLt(ClampPadding(prev.padding), ClampPadding(padding_arg))
            => QLt(Dist2(prev.pos, CubeCentre), Dist2(result, CubeCentre)))
        /\ (ClampPadding(prev.padding) = ClampPadding(padding_arg)
            => result = prev.pos)
C10_Witness ==
    /\ CubeAhead
    /\ prev.padding = Zero
    /\ padding_arg = <<7, 32>>
    /\ QLt(Dist2(prev.pos, CubeCentre), Dist2(result, CubeCentre))

\* Row r of m times the rotation about row axis of m by atan(t), and that row
\* with each element over cos(atan(t)).
RotatedRow(m, r, axis, t) == PointTimes(m[r + 1], RotationAxis(Axis(m, axis), t))
Over(row, c) == <<QDiv(row[1], c), QDiv(row[2], c), QDiv(row[3], c), QDiv(row[4], c)>>
\* What one step of lines 48-104 has to do, from the basis cam_tr it finds.
FoldStep ==
    /\ pc = "lens_tilt" =>
          /\ cam_tr' = cam_tr
          /\ IF camera.vray
             THEN /\ pc' = "vertical_tilt"
                  /\ vertical_tilt' = camera.vertical_tilt
                  /\ horizontal_tilt' = camera.horizontal_tilt
             ELSE /\ pc' = "vertical_shift"
                  /\ vertical_tilt' = None
                  /\ horizontal_tilt' = None
    /\ pc = "vertical_tilt" =>
          /\ pc' = "horizontal_tilt"
          /\ cam_tr' = IF vertical_tilt = Zero THEN cam_tr
                       ELSE setRow(cam_tr, 1, RotatedRow(cam_tr, 1, 0, QNeg(vertical_tilt)))
    /\ pc = "horizontal_tilt" =>
          /\ pc' = "vertical_shift"
          /\ cam_tr' = IF horizontal_tilt = Zero THEN cam_tr
                       ELSE setRow(cam_tr, 0, RotatedRow(cam_tr, 0, 1, horizontal_tilt))
    /\ pc = "vertical_shift" =>
          /\ pc' = "horizontal_shift"
          /\ cam_tr' = IF camera.vfo = Zero THEN cam_tr
                       ELSE LET t == QMul(QMul(ang_vt(camera), I(2)),
                                          QDiv(camera.vfo, QMul(camera.hfa, frame_ar(camera))))
                            IN  setRow(cam_tr, 2, Over(RotatedRow(cam_tr, 2, 0, t), CosAtan(t)))
    /\ pc = "horizontal_shift" =>
          /\ pc' = "frames"
          /\ cam_tr' = IF camera.hfo = Zero THEN cam_tr
                       ELSE LET t == QMul(QMul(ang_ht(camera), I(2)),
                                          QDiv(camera.hfo, camera.hfa))
                            IN  setRow(cam_tr, 2,
                                       Over(RotatedRow(cam_tr, 2, 1, QNeg(t)), CosAtan(t)))
          \* the four steps together are the corrected basis a whole call takes
          /\ cam_tr' = CorrectedBasis(camera, cam_world)
    /\ pc = "frames" => UNCHANGED <<pc, cam_tr>>
\* C11: the corrections of one solve run in the order vertical tilt, horizontal
\* tilt, vertical shift, horizontal shift; each one that is enabled takes its
\* rotation axis and the row it rotates from the basis the earlier ones left,
\* one whose parameter is zero leaves the basis as it is, and a camera without
\* the tilt capability goes from the capability test to the vertical shift
\* with the tilt attributes unread.
C11_SequentialFold == [][FoldStep]_vars
\* A tilt-capable camera with all four corrections enabled has reached line
\* 108, and its X row is not the one a horizontal tilt of the uncorrected
\* basis gives.
C11_Witness ==
    /\ pc = "frames"
    /\ camera.vray
    /\ Zero \notin {vertical_tilt, horizontal_tilt, camera.vfo, camera.hfo}
    /\ cam_tr[1] # RotatedRow(cam_world, 0, 1, horizontal_tilt)
    /\ cam_tr # cam_world

\* The rows of the working matrix other than row r (counted from 0) stay as
\* they are in this step.
OnlyRow(r) == \A k \in (0..3) \ {r} : getRow(cam_tr', k) = getRow(cam_tr, k)
\* No tilt and no shift is set on the camera.
NoCorrection(cam) ==
    /\ cam.vfo = Zero
    /\ cam.hfo = Zero
    /\ is_vray_cam(cam) => cam.vertical_tilt = Zero /\ cam.horizontal_tilt = Zero
OneRowStep ==
    /\ pc = "lens_tilt" => cam_tr' = cam_tr
    /\ pc = "vertical_tilt" => OnlyRow(1)
    /\ pc = "horizontal_tilt" => OnlyRow(0)
    /\ pc = "vertical_shift" => OnlyRow(2)
    /\ pc = "horizontal_shift" => OnlyRow(2)
    /\ getRow(cam_tr', 3) = getRow(cam_world, 3)
    /\ pc' = "frames" /\ NoCorrection(camera) => cam_tr' = cam_world
\* C12: a correction writes one row of the working matrix and leaves the
\* others: the vertical tilt row 1, the horizontal tilt row 0, each shift row
\* 2; row 3, the translation, is the one read from the camera throughout, and
\* with no tilt and no shift set the working matrix at line 108 is the
\* camera's world matrix.
C12_OneRowPerCorrection == [][OneRowStep]_vars
\* The vertical shift alone has acted: row 2 of the working matrix is new and
\* rows 0, 1 and 3 are the camera's.
C12_Witness ==
    /\ pc = "horizontal_shift"
    /\ camera.vfo # Zero
    /\ getRow(cam_tr, 2) # getRow(cam_world, 2)
    /\ \A k \in {0, 1, 3} : getRow(cam_tr, k) = getRow(cam_world, k)

\* The last call ended with an exception.
Aborted == pc = "idle" /\ outcome = "error"
\* C13: when a call ends with an exception, the camera's world matrix and every
\* object's world matrix are those the scene had when the call was made, and
\* the scene holds no "_copy_delete_me" node.
C13_AbortHasNoEffect ==
    Aborted =>
        /\ camXform = scene_before.camXform
        /\ objXform = scene_before.objXform
        /\ copies = {}
\* The exceptions raised before line 61 of node_get_bounding_box has run, or
\* outside it, leave the scene as the call found it.
C13_AbortOutsideQueryHasNoEffect ==
    Aborted /\ raised \in {"camera_query", "TypeError", "inverse", "xform_query", "xform_move"} =>
        /\ camXform = scene_before.camXform
        /\ objXform = scene_before.objXform
        /\ copies = scene_before.copies
\* The host refused makeIdentity on the copy of an object in a scene that was
\* untouched: the call has ended, the object is where line 61 put it and its
\* copy is in the scene.
C13_Witness ==
    /\ Aborted
    /\ raised = "makeIdentity"
    /\ scene_before.copies = {}
    /\ scene_before.objXform = InitObjXform
    /\ objXform[fault.node] # InitObjXform[fault.node]
    /\ \E c \in copies : c.of = fault.node
====
